---- MODULE Spec2Model ----
(***************************************************************************)
(* State-machine model of the image editor (App.tsx, its panels and        *)
(* services/geminiService.ts).                                             *)
(*                                                                         *)
(* React state is the set of variables.  There is one action per event     *)
(* handler, timer callback and promise continuation.  The effects that a   *)
(* handler's re-render triggers run before the next event is delivered, so *)
(* they are part of the handler's action (RunEffects).  An async handler   *)
(* is two actions: the part up to its await, which registers a request     *)
(* holding the values its closure captured, and the continuation, which    *)
(* works on those captured values and not on the state of the latest       *)
(* render.                                                                 *)
(***************************************************************************)
EXTENDS Integers, Sequences, FiniteSets, TLC

\* ------------------------------------------------------------------ bounds
MaxHistory == 3
MaxInFlight == 2
MaxHandlerUrls == 1
MaxDirty == 1
ToastTicks == 2
\* MaxHistory: longest version history explored.  MaxInFlight: suspended async
\* handlers the model can hold.  MaxHandlerUrls: handler-created object URLs
\* alive at a time.  MaxDirty: groups of transient inputs away from their
\* default at a time.  ToastTicks: the 5000 ms toast timeout in clock ticks.

\* ------------------------------------------------------- values and domains
Files == 0 .. (2 * MaxHistory + 1)    \* identities of File objects
NoFile == -1
RefFile == 100
NoError == <<>>
Tabs == {"retouch", "ai_edit", "faceswap", "adjust", "filters", "crop", "resize", "color"}
Prompts == {"", " ", "fix"}
DefaultAdjust == 100
AdjustValues == {100, 150}
NoSpot == "null"
Spot == "xy"
NoCrop == "undefined"
BoxCrop == "box"
NoToast == -1
AiOps == {"retouch", "filter", "adjust", "ai_edit", "faceswap"}
CanvasOps == {"clientfilter", "rotate", "resize", "color"}

VARIABLES
    history,                \* File[]                        App.tsx:93
    historyIndex,           \* number, 0-based               App.tsx:94
    prompt,                 \* App.tsx:95
    isLoading,              \* App.tsx:96
    isUiReady,              \* App.tsx:97
    error,                  \* App.tsx:98
    editHotspot,            \* App.tsx:99
    displayHotspot,         \* App.tsx:100
    activeTab,              \* App.tsx:101
    secondaryImage,         \* App.tsx:102
    crop,                   \* App.tsx:104
    completedCrop,          \* App.tsx:105
    isComparingModeActive,  \* App.tsx:107
    colorAdjustments,       \* App.tsx:109
    inflight,               \* suspended async handlers, in start order
    uiTimer,                \* the 500 ms readiness timeout is pending
    toastTimer,             \* ticks until the ErrorToast timeout fires
    objectUrls,             \* object URLs created by effects, not revoked
    handlerUrls,            \* object URLs created by handlers, not revoked
    uncaught,               \* the last handler ended in an uncaught exception
    toastAge,               \* observer: ticks since the shown error was set
    response,               \* observer: the service response just handled
    trail,                  \* observer: upload / commit / undo / redo record
    imageData,              \* the ImageData of applyCanvasFilter's canvas
    naturalSize,            \* naturalWidth x naturalHeight of each File
    imageDimensions,        \* App.tsx:108, set by handleImageLoad
    resizePanel,            \* ResizePanel's width, height, isLocked
    cropJob,                \* handleApplyCrop's image, crop and canvas
    presetPanel             \* FilterPanel's / AdjustmentPanel's presets

appVars == <<history, historyIndex, prompt, isLoading, isUiReady, error,
             editHotspot, displayHotspot, activeTab, secondaryImage, crop,
             completedCrop, isComparingModeActive, colorAdjustments>>
envVars == <<inflight, uiTimer, toastTimer, objectUrls, handlerUrls, uncaught>>
observers == <<toastAge, response, trail>>
\* what the canvas and the panels compute with; the specifications of the
\* canvas operations and of the panels below give them values, the others
\* leave them alone
canvasVars ==
    <<imageData, naturalSize, imageDimensions, resizePanel, cropJob, presetPanel>>
vars == <<appVars, envVars, observers, canvasVars>>

\* ------------------------------------------------------------ derived state
ImageAt(h, i) == IF i + 1 \in DOMAIN h THEN h[i + 1] ELSE NoFile
currentImage == ImageAt(history, historyIndex)
originalImage == ImageAt(history, 0)
\* seeded fault: the undo guard with its comparison off by one
canUndoOffByOne == historyIndex >= 0
canUndo == historyIndex > 0
canRedo == historyIndex < Len(history) - 1
DefaultColor ==
    [brightness |-> DefaultAdjust, contrast |-> DefaultAdjust, saturation |-> DefaultAdjust]
trim(s) == IF s = " " THEN "" ELSE IF s = " warm" THEN "warm" ELSE s
Range(s) == {s[k] : k \in DOMAIN s}
\* The File object created for position pos of the history: an identity that
\* no File of h has (each position owns two identities).
FreshFile(h, pos) == CHOOSE f \in {2 * pos, 2 * pos + 1} : f \notin Range(h)

\* ------------------------------------------------- dataURLtoFile (App.tsx)
\* A data URL "data:<mime>;base64,<data>" is kept as its two variable parts.
DataUrl(mime, data) == [mime |-> mime, data |-> data]
EmptyCanvasUrl == DataUrl("", "")     \* "data:," of a canvas without pixels
PngUrl == DataUrl("image/png", "AAAA")
\* outcome of a call that may throw: its value, or the thrown message
Ok(v) == [ok |-> TRUE, value |-> v, message |-> ""]
Throw(m) == [ok |-> FALSE, value |-> DataUrl("", ""), message |-> m]
dataURLtoFile(u) ==
    IF u.mime = "" THEN Throw("Could not parse MIME type from data URL")
    ELSE IF u.data = "!" THEN Throw("The string to be decoded is not correctly encoded")
    ELSE Ok(u)

\* ------------------------------------- handleApiResponse (geminiService.ts)
TextPart == [text |-> "hi", inlineData |-> <<>>]
BlankPart == [text |-> " ", inlineData |-> <<>>]
ImagePart == [text |-> "", inlineData |-> <<DataUrl("image/png", "AAAA")>>]
BadMimePart == [text |-> "", inlineData |-> <<DataUrl("", "AAAA")>>]
BadDataPart == [text |-> "", inlineData |-> <<DataUrl("image/png", "!")>>]
PartLists == {<<>>, <<TextPart>>, <<BlankPart>>, <<ImagePart>>, <<TextPart, ImagePart>>,
              <<BadMimePart>>, <<BadDataPart>>}
FinishReasons == {"", "STOP", "SAFETY"}     \* "" is undefined
Candidates == {<<>>} \cup
    {<<[parts |-> p, finishReason |-> f]>> : p \in PartLists, f \in FinishReasons}
\* response.text: the text of the first candidate's text parts, "" if none
ResponseText(candidates) ==
    IF candidates = <<>> THEN ""
    ELSE LET parts == candidates[1].parts
             texts == {k \in DOMAIN parts : parts[k].text # ""}
         IN IF texts = {} THEN "" ELSE parts[CHOOSE k \in texts : TRUE].text
Responses ==
    {[blockReason |-> b, candidates |-> c, text |-> ResponseText(c)] :
        b \in {"", "SAFETY"}, c \in Candidates}

\* the replies the plain editor is run with: an image, a malformed image, none
Replies ==
    {r \in Responses :
        \/ r.candidates = <<>>
        \/ /\ r.candidates # <<>>
           /\ r.candidates[1].finishReason = "STOP"
           /\ r.candidates[1].parts \in {<<ImagePart>>, <<BadMimePart>>}}
\* parts.find(part => part.inlineData) on the first candidate, <<>> if none
FirstImagePart(r) ==
    IF r.candidates = <<>> THEN <<>>
    ELSE LET parts == r.candidates[1].parts
             hits == {k \in DOMAIN parts : parts[k].inlineData # <<>>}
         IN IF hits = {} THEN <<>>
            ELSE <<parts[CHOOSE k \in hits : \A j \in hits : k <= j]>>
FinishReason(r) == IF r.candidates = <<>> THEN "" ELSE r.candidates[1].finishReason
MsgBlocked == "Request was blocked."
MsgStopped == "Image generation stopped unexpectedly."
MsgText == "The AI model did not return an image. The model responded with text."
MsgGeneric == "The AI model did not return an image. This can happen due to safety filters."
\* seeded fault: the image part is looked for before the block reason
handleApiResponseImageFirst(r) ==
    IF FirstImagePart(r) # <<>> THEN Ok(FirstImagePart(r)[1].inlineData[1])
    ELSE IF r.blockReason # "" THEN Throw(MsgBlocked)
    ELSE IF FinishReason(r) # "" /\ FinishReason(r) # "STOP" THEN Throw(MsgStopped)
    ELSE IF trim(r.text) # "" THEN Throw(MsgText)
    ELSE Throw(MsgGeneric)
\* seeded fault: the model's text is looked at before the finish reason
handleApiResponseTextFirst(r) ==
    IF r.blockReason # "" THEN Throw(MsgBlocked)
    ELSE IF FirstImagePart(r) # <<>> THEN Ok(FirstImagePart(r)[1].inlineData[1])
    ELSE IF trim(r.text) # "" THEN Throw(MsgText)
    ELSE IF FinishReason(r) # "" /\ FinishReason(r) # "STOP" THEN Throw(MsgStopped)
    ELSE Throw(MsgGeneric)
handleApiResponse(r) ==
    IF r.blockReason # "" THEN Throw(MsgBlocked)
    ELSE IF FirstImagePart(r) # <<>> THEN Ok(FirstImagePart(r)[1].inlineData[1])
    ELSE IF FinishReason(r) # "" /\ FinishReason(r) # "STOP" THEN Throw(MsgStopped)
    ELSE IF trim(r.text) # "" THEN Throw(MsgText)
    ELSE Throw(MsgGeneric)

\* ------------------------------ the request parts (geminiService.ts)
\* contents.parts of the generateContent call each function makes.  An image
\* part holds the File it was read from, the text part the directive.
fileToPart(file) == [inlineData |-> <<file>>, text |-> ""]
textPart(directive) == [inlineData |-> <<>>, text |-> directive]
generateEditedImage(image) ==
    <<fileToPart(image), textPart("localized edit")>>
generateFilteredImage(image) ==
    <<fileToPart(image), textPart("stylistic filter")>>
\* seeded fault: the reference image is never added to the parts
generateAdjustedImageNoReference(image, referenceImage) ==
    <<fileToPart(image), textPart("global adjustment")>>
generateAdjustedImage(image, referenceImage) ==
    IF referenceImage # NoFile
    THEN <<fileToPart(image), fileToPart(referenceImage),
           textPart("adjustment with reference")>>
    ELSE <<fileToPart(image), textPart("global adjustment")>>
generateAiEditImage(image) ==
    <<fileToPart(image), textPart("creative transformation")>>
generateFaceSwapImage(sourceImage, targetImage) ==
    <<fileToPart(sourceImage), fileToPart(targetImage), textPart("face swap")>>
\* the call each handler makes with the values its closure captured
RequestParts(req) ==
    CASE req.op = "retouch" -> generateEditedImage(req.image)
      [] req.op = "filter" -> generateFilteredImage(req.image)
      [] req.op = "adjust" -> generateAdjustedImage(req.image, req.ref)
      [] req.op = "ai_edit" -> generateAiEditImage(req.image)
      [] req.op = "faceswap" -> generateFaceSwapImage(req.image, req.ref)
      [] OTHER -> <<>>

\* ----------------------------------------------------------------- Init
InitEditor ==
    /\ history = <<>>
    /\ historyIndex = -1
    /\ prompt = ""
    /\ isLoading = FALSE
    /\ isUiReady = TRUE
    /\ error = NoError
    /\ editHotspot = NoSpot
    /\ displayHotspot = NoSpot
    /\ activeTab = "retouch"
    /\ secondaryImage = NoFile
    /\ crop = NoCrop
    /\ completedCrop = NoCrop
    /\ isComparingModeActive = FALSE
    /\ colorAdjustments = DefaultColor
    /\ inflight = <<>>
    /\ uiTimer = FALSE
    /\ toastTimer = NoToast
    /\ objectUrls = {}
    /\ handlerUrls = 0
    /\ uncaught = FALSE
    /\ toastAge = 0
    /\ response = <<>>
    /\ trail = [phase |-> "none", n |-> 0, h |-> <<>>]
Init ==
    /\ InitEditor
    /\ imageData = <<>>
    /\ naturalSize = <<>>
    /\ imageDimensions = <<>>
    /\ resizePanel = <<>>
    /\ cropJob = <<>>
    /\ presetPanel = <<>>

\* ------------------------------------------------ effects (App.tsx:124-154)
\* The secondary image is shown by FaceSwapPanel / AdjustmentPanel, which are
\* mounted only on their tab and only while the editor is rendered.
SecondaryShown ==
    IF activeTab \in {"faceswap", "adjust"} /\ currentImage # NoFile
    THEN secondaryImage ELSE NoFile
\* useEffect(() => { if (x) { url = create(x); return () => revoke(url) } }, [x])
EffectUrl(owner, old, new, urls) ==
    IF new = old THEN urls
    ELSE (urls \ {<<owner, old>>}) \cup (IF new = NoFile THEN {} ELSE {<<owner, new>>})
UrlEffects ==
    objectUrls' =
        EffectUrl("secondary", SecondaryShown, SecondaryShown',
          EffectUrl("original", originalImage, originalImage',
            EffectUrl("current", currentImage, currentImage', objectUrls)))
\* keyed on currentImage: the cleanup clears the pending timeout, the effect
\* sets a new one when there is an image
ReadyEffect ==
    uiTimer' = IF currentImage' = currentImage THEN uiTimer ELSE currentImage' # NoFile
\* ErrorToast's effect is keyed on onDismiss, an arrow function App creates on
\* every render: each render of App clears the timeout and sets a new one.
ToastEffect ==
    toastTimer' = IF error' = NoError THEN NoToast
                  ELSE IF appVars' # appVars THEN ToastTicks
                  ELSE toastTimer
\* All effects whose dependencies changed, run after the handler's re-render.
RunEffects == UrlEffects /\ ReadyEffect /\ ToastEffect
\* A handler that returns without setting any state: nothing is rendered.
NoChange ==
    /\ uncaught' = FALSE
    /\ UNCHANGED <<appVars, inflight, uiTimer, toastTimer, objectUrls, handlerUrls>>

\* ------------------------------------------------------- state transitions
\* seeded fault: the secondary image is not cleared
resetTransientStatesKeepsSecondary ==
    /\ editHotspot' = NoSpot
    /\ displayHotspot' = NoSpot
    /\ crop' = NoCrop
    /\ completedCrop' = NoCrop
    /\ UNCHANGED secondaryImage
    /\ colorAdjustments' = DefaultColor
    /\ isComparingModeActive' = FALSE
resetTransientStates ==
    /\ editHotspot' = NoSpot
    /\ displayHotspot' = NoSpot
    /\ crop' = NoCrop
    /\ completedCrop' = NoCrop
    /\ secondaryImage' = NoFile
    /\ colorAdjustments' = DefaultColor
    /\ isComparingModeActive' = FALSE

\* seeded fault: history.slice(historyIndex) instead of slice(0, historyIndex + 1)
addImageToHistoryFromCurrent(newImageFile, h, i) ==
    /\ isUiReady' = FALSE
    /\ history' = Append(SubSeq(h, i + 1, Len(h)), newImageFile)
    /\ historyIndex' = Len(history') - 1
    /\ crop' = NoCrop
    /\ completedCrop' = NoCrop
    /\ secondaryImage' = NoFile
    /\ colorAdjustments' = DefaultColor
    /\ isComparingModeActive' = FALSE
\* h and i are the history and historyIndex of the render whose closure runs
addImageToHistory(newImageFile, h, i) ==
    /\ isUiReady' = FALSE
    /\ history' = Append(SubSeq(h, 1, i + 1), newImageFile)
    /\ historyIndex' = Len(history') - 1
    /\ crop' = NoCrop
    /\ completedCrop' = NoCrop
    /\ secondaryImage' = NoFile
    /\ colorAdjustments' = DefaultColor
    /\ isComparingModeActive' = FALSE

\* seeded fault: undo goes back to the first version
handleUndoToStart ==
    IF canUndo
    THEN /\ isUiReady' = FALSE
         /\ historyIndex' = 0
         /\ resetTransientStates
         /\ uncaught' = FALSE
         /\ UNCHANGED <<history, prompt, isLoading, error, activeTab, inflight, handlerUrls>>
         /\ RunEffects
    ELSE NoChange
\* seeded fault: setIsUiReady(false) is called before the canUndo test
handleUndoClearsReadyFirst ==
    IF canUndo
    THEN /\ isUiReady' = FALSE
         /\ historyIndex' = historyIndex - 1
         /\ resetTransientStates
         /\ uncaught' = FALSE
         /\ UNCHANGED <<history, prompt, isLoading, error, activeTab, inflight, handlerUrls>>
         /\ RunEffects
    ELSE /\ isUiReady' = FALSE
         /\ uncaught' = FALSE
         /\ UNCHANGED <<history, historyIndex, prompt, isLoading, error,
                        editHotspot, displayHotspot, activeTab, secondaryImage,
                        crop, completedCrop, isComparingModeActive,
                        colorAdjustments, inflight, handlerUrls>>
         /\ RunEffects
handleUndo ==
    IF canUndo
    THEN /\ isUiReady' = FALSE
         /\ historyIndex' = historyIndex - 1
         /\ resetTransientStates
         /\ uncaught' = FALSE
         /\ UNCHANGED <<history, prompt, isLoading, error, activeTab, inflight, handlerUrls>>
         /\ RunEffects
    ELSE NoChange

\* seeded fault: redo abandons the running request
handleRedoCancels ==
    IF canRedo
    THEN /\ isUiReady' = FALSE
         /\ historyIndex' = historyIndex + 1
         /\ resetTransientStates
         /\ inflight' = <<>>
         /\ isLoading' = FALSE
         /\ uncaught' = FALSE
         /\ UNCHANGED <<history, prompt, error, activeTab, handlerUrls>>
         /\ RunEffects
    ELSE NoChange
handleRedo ==
    IF canRedo
    THEN /\ isUiReady' = FALSE
         /\ historyIndex' = historyIndex + 1
         /\ resetTransientStates
         /\ uncaught' = FALSE
         /\ UNCHANGED <<history, prompt, isLoading, error, activeTab, inflight, handlerUrls>>
         /\ RunEffects
    ELSE NoChange

handleImageUpload(file) ==
    /\ isUiReady' = FALSE
    /\ error' = NoError
    /\ history' = <<file>>
    /\ historyIndex' = 0
    /\ activeTab' = "retouch"
    /\ resetTransientStates
    /\ uncaught' = FALSE
    /\ UNCHANGED <<prompt, isLoading, inflight, handlerUrls>>
    /\ RunEffects

handleTabChange(tab) ==
    /\ isComparingModeActive' = FALSE
    /\ activeTab' = tab
    /\ uncaught' = FALSE
    /\ UNCHANGED <<history, historyIndex, prompt, isLoading, isUiReady, error,
                   editHotspot, displayHotspot, secondaryImage, crop,
                   completedCrop, colorAdjustments, inflight, handlerUrls>>
    /\ RunEffects

\* seeded fault: reset drops the versions after the first one
handleResetTruncates ==
    IF Len(history) > 0
    THEN /\ isUiReady' = FALSE
         /\ history' = SubSeq(history, 1, 1)
         /\ historyIndex' = 0
         /\ error' = NoError
         /\ resetTransientStates
         /\ uncaught' = FALSE
         /\ UNCHANGED <<prompt, isLoading, activeTab, inflight, handlerUrls>>
         /\ RunEffects
    ELSE NoChange
handleReset ==
    IF Len(history) > 0
    THEN /\ isUiReady' = FALSE
         /\ historyIndex' = 0
         /\ error' = NoError
         /\ resetTransientStates
         /\ uncaught' = FALSE
         /\ UNCHANGED <<history, prompt, isLoading, activeTab, inflight, handlerUrls>>
         /\ RunEffects
    ELSE NoChange

handleUploadNew ==
    /\ history' = <<>>
    /\ historyIndex' = -1
    /\ error' = NoError
    /\ prompt' = ""
    /\ resetTransientStates
    /\ uncaught' = FALSE
    /\ UNCHANGED <<isLoading, isUiReady, activeTab, inflight, handlerUrls>>
    /\ RunEffects

\* ------------------------------------------------ starting an async handler
\* The handler runs up to its first await: it registers the request with the
\* values its closure captured (currentImage, secondaryImage, and the history
\* and historyIndex that addImageToHistory will use).
Request(op, ref) ==
    [op |-> op, image |-> currentImage, ref |-> ref, h |-> history, i |-> historyIndex]
BeginRequest(op, ref) ==
    /\ isLoading' = TRUE
    /\ error' = NoError
    /\ inflight' = Append(inflight, Request(op, ref))
    /\ handlerUrls' = IF op \in CanvasOps THEN handlerUrls + 1 ELSE handlerUrls
    /\ uncaught' = FALSE
    /\ UNCHANGED <<history, historyIndex, prompt, isUiReady, editHotspot,
                   displayHotspot, activeTab, secondaryImage, crop,
                   completedCrop, isComparingModeActive, colorAdjustments>>
    /\ RunEffects
setError(message) ==
    /\ error' = message
    /\ uncaught' = FALSE
    /\ UNCHANGED <<history, historyIndex, prompt, isLoading, isUiReady,
                   editHotspot, displayHotspot, activeTab, secondaryImage,
                   crop, completedCrop, isComparingModeActive,
                   colorAdjustments, inflight, handlerUrls>>
    /\ RunEffects
ErrNoImage == <<"precondition", "no image loaded">>
ErrNoPrompt == <<"precondition", "no prompt">>
ErrNoHotspot == <<"precondition", "no hotspot">>
ErrNoFaces == <<"precondition", "source and target image needed">>
ErrNoCrop == <<"precondition", "no crop selected">>
ErrCropContext == <<"precondition", "cannot process crop">>
Failed(message) == <<"failed", message>>

\* seeded fault: the hotspot guard is missing
handleGenerateWithoutHotspotGuard ==
    IF currentImage = NoFile THEN setError(ErrNoImage)
    ELSE IF trim(prompt) = "" THEN setError(ErrNoPrompt)
    ELSE BeginRequest("retouch", NoFile)
handleGenerate ==
    IF currentImage = NoFile THEN setError(ErrNoImage)
    ELSE IF trim(prompt) = "" THEN setError(ErrNoPrompt)
    ELSE IF editHotspot = NoSpot THEN setError(ErrNoHotspot)
    ELSE BeginRequest("retouch", NoFile)
handleApplyFilter ==
    IF currentImage = NoFile THEN setError(ErrNoImage)
    ELSE BeginRequest("filter", NoFile)
applyCanvasFilter ==
    IF currentImage = NoFile THEN setError(ErrNoImage)
    ELSE BeginRequest("clientfilter", NoFile)
handleRotate ==
    IF currentImage = NoFile THEN setError(ErrNoImage)
    ELSE BeginRequest("rotate", NoFile)
handleApplyAdjustment ==
    IF currentImage = NoFile THEN setError(ErrNoImage)
    ELSE BeginRequest("adjust", secondaryImage)
handleApplyAiEdit ==
    IF currentImage = NoFile THEN setError(ErrNoImage)
    ELSE BeginRequest("ai_edit", NoFile)
handleApplyFaceSwap ==
    IF currentImage = NoFile \/ secondaryImage = NoFile THEN setError(ErrNoFaces)
    ELSE BeginRequest("faceswap", secondaryImage)
handleApplyResize ==
    IF currentImage = NoFile THEN setError(ErrNoImage)
    ELSE BeginRequest("resize", NoFile)
\* seeded fault: the test for unchanged sliders is missing
handleApplyColorAdjustmentsAlways ==
    IF currentImage = NoFile THEN setError(ErrNoImage)
    ELSE BeginRequest("color", NoFile)
handleApplyColorAdjustments ==
    IF currentImage = NoFile THEN setError(ErrNoImage)
    ELSE IF colorAdjustments = DefaultColor THEN NoChange
    ELSE BeginRequest("color", NoFile)

\* ---------------------------------------- the continuation after the await
Remove(seq, k) == SubSeq(seq, 1, k - 1) \o SubSeq(seq, k + 1, Len(seq))
\* seeded fault: the continuation works on the history and the position of
\* the latest render
SettleAtLatest(k, result, revoked) ==
    LET req == inflight[k] IN
    /\ inflight' = Remove(inflight, k)
    /\ isLoading' = FALSE
    /\ handlerUrls' = IF revoked THEN handlerUrls - 1 ELSE handlerUrls
    /\ IF result.ok
       THEN /\ addImageToHistory(FreshFile(history, historyIndex + 1), history, historyIndex)
            /\ IF req.op = "retouch"
               THEN editHotspot' = NoSpot /\ displayHotspot' = NoSpot
               ELSE UNCHANGED <<editHotspot, displayHotspot>>
            /\ UNCHANGED <<prompt, error, activeTab>>
       ELSE /\ error' = Failed(result.message)
            /\ UNCHANGED <<history, historyIndex, prompt, isUiReady, editHotspot,
                           displayHotspot, activeTab, secondaryImage, crop,
                           completedCrop, isComparingModeActive, colorAdjustments>>
    /\ uncaught' = FALSE
    /\ RunEffects
\* seeded fault: the loading flag is cleared in the try block, not in finally
SettleWithoutFinally(k, result, revoked) ==
    LET req == inflight[k] IN
    /\ inflight' = Remove(inflight, k)
    /\ isLoading' = IF result.ok THEN FALSE ELSE isLoading
    /\ handlerUrls' = IF revoked THEN handlerUrls - 1 ELSE handlerUrls
    /\ IF result.ok
       THEN /\ addImageToHistory(FreshFile(history \o req.h, req.i + 1), req.h, req.i)
            /\ IF req.op = "retouch"
               THEN editHotspot' = NoSpot /\ displayHotspot' = NoSpot
               ELSE UNCHANGED <<editHotspot, displayHotspot>>
            /\ UNCHANGED <<prompt, error, activeTab>>
       ELSE /\ error' = Failed(result.message)
            /\ UNCHANGED <<history, historyIndex, prompt, isUiReady, editHotspot,
                           displayHotspot, activeTab, secondaryImage, crop,
                           completedCrop, isComparingModeActive, colorAdjustments>>
    /\ uncaught' = FALSE
    /\ RunEffects
\* result is what the try block produced: Ok(file) or the thrown message.
\* revoked: the handler reached URL.revokeObjectURL(image.src).
Settle(k, result, revoked) ==
    LET req == inflight[k] IN
    /\ inflight' = Remove(inflight, k)
    /\ isLoading' = FALSE
    /\ handlerUrls' = IF revoked THEN handlerUrls - 1 ELSE handlerUrls
    /\ IF result.ok
       THEN /\ addImageToHistory(FreshFile(history \o req.h, req.i + 1), req.h, req.i)
            /\ IF req.op = "retouch"
               THEN editHotspot' = NoSpot /\ displayHotspot' = NoSpot
               ELSE UNCHANGED <<editHotspot, displayHotspot>>
            /\ UNCHANGED <<prompt, error, activeTab>>
       ELSE /\ error' = Failed(result.message)
            /\ UNCHANGED <<history, historyIndex, prompt, isUiReady, editHotspot,
                           displayHotspot, activeTab, secondaryImage, crop,
                           completedCrop, isComparingModeActive, colorAdjustments>>
    /\ uncaught' = FALSE
    /\ RunEffects
MsgRejected == "The service call was rejected."
MsgUnknown == "An unknown error occurred."
MsgNoContext == "Cannot create canvas context"
\* generateXxx returns handleApiResponse(response); the handler passes the
\* returned data URL to dataURLtoFile.
ServiceResult(r) ==
    LET api == handleApiResponse(r) IN IF api.ok THEN dataURLtoFile(api.value) ELSE api
SettleAiWith(k, r) == inflight[k].op \in AiOps /\ Settle(k, ServiceResult(r), FALSE)
\* fileToPart or generateContent rejects
SettleAiRejected(k) == inflight[k].op \in AiOps /\ Settle(k, Throw(MsgRejected), FALSE)
\* image.onerror rejects with an Event (not an Error) before the URL is
\* revoked; getContext may return null; toDataURL gives "data:," for a canvas
\* without pixels.
CanvasOutcomes == {"drawn", "onerror", "nocontext", "nopixels"}
CanvasResult(outcome) ==
    CASE outcome = "onerror" -> Throw(MsgUnknown)
      [] outcome = "nocontext" -> Throw(MsgNoContext)
      [] outcome = "nopixels" -> dataURLtoFile(EmptyCanvasUrl)
      [] OTHER -> dataURLtoFile(PngUrl)
Revoked(outcome) == outcome # "onerror"
SettleCanvas(k, outcome) ==
    inflight[k].op \in CanvasOps /\ Settle(k, CanvasResult(outcome), Revoked(outcome))

\* -------------------------------------------- handleApplyCrop (synchronous)
\* imgRef.current is null while the ComparisonSlider replaces the <img>.
imgRefCurrent == IF isComparingModeActive THEN NoFile ELSE currentImage
handleApplyCrop(outcome) ==
    IF completedCrop = NoCrop \/ imgRefCurrent = NoFile THEN setError(ErrNoCrop)
    ELSE IF outcome = "nocontext" THEN setError(ErrCropContext)
    ELSE LET file == dataURLtoFile(IF outcome = "nopixels" THEN EmptyCanvasUrl ELSE PngUrl) IN
         IF file.ok
         THEN /\ addImageToHistory(FreshFile(history, historyIndex + 1), history, historyIndex)
              /\ uncaught' = FALSE
              /\ UNCHANGED <<prompt, isLoading, error, editHotspot, displayHotspot,
                             activeTab, inflight, handlerUrls>>
              /\ RunEffects
         ELSE \* no try/catch: the exception leaves the handler, no state is set
              /\ uncaught' = TRUE
              /\ UNCHANGED <<appVars, inflight, uiTimer, toastTimer, objectUrls, handlerUrls>>

\* ------------------------------------------------ input handlers
setPrompt(value) ==
    /\ prompt' = value
    /\ uncaught' = FALSE
    /\ UNCHANGED <<history, historyIndex, isLoading, isUiReady, error,
                   editHotspot, displayHotspot, activeTab, secondaryImage,
                   crop, completedCrop, isComparingModeActive,
                   colorAdjustments, inflight, handlerUrls>>
    /\ RunEffects
handleImageClick ==
    IF activeTab # "retouch" \/ ~isUiReady THEN NoChange
    ELSE /\ displayHotspot' = Spot
         /\ editHotspot' = Spot
         /\ uncaught' = FALSE
         /\ UNCHANGED <<history, historyIndex, prompt, isLoading, isUiReady, error,
                        activeTab, secondaryImage, crop, completedCrop,
                        isComparingModeActive, colorAdjustments, inflight,
                        handlerUrls>>
         /\ RunEffects
handleSecondaryImageUpload(file) ==
    /\ secondaryImage' = file
    /\ uncaught' = FALSE
    /\ UNCHANGED <<history, historyIndex, prompt, isLoading, isUiReady, error,
                   editHotspot, displayHotspot, activeTab, crop,
                   completedCrop, isComparingModeActive, colorAdjustments,
                   inflight, handlerUrls>>
    /\ RunEffects
handleClearSecondaryImage ==
    /\ secondaryImage' = NoFile
    /\ uncaught' = FALSE
    /\ UNCHANGED <<history, historyIndex, prompt, isLoading, isUiReady, error,
                   editHotspot, displayHotspot, activeTab, crop,
                   completedCrop, isComparingModeActive, colorAdjustments,
                   inflight, handlerUrls>>
    /\ RunEffects
setCrop(c) ==
    /\ crop' = c
    /\ uncaught' = FALSE
    /\ UNCHANGED <<history, historyIndex, prompt, isLoading, isUiReady, error,
                   editHotspot, displayHotspot, activeTab, secondaryImage,
                   completedCrop, isComparingModeActive, colorAdjustments,
                   inflight, handlerUrls>>
    /\ RunEffects
setCompletedCrop(c) ==
    /\ completedCrop' = c
    /\ uncaught' = FALSE
    /\ UNCHANGED <<history, historyIndex, prompt, isLoading, isUiReady, error,
                   editHotspot, displayHotspot, activeTab, secondaryImage,
                   crop, isComparingModeActive, colorAdjustments, inflight,
                   handlerUrls>>
    /\ RunEffects
\* seeded fault: the new value is put into the defaults, not into the
\* adjustments now shown
handleSliderChangeFromDefault(key, value) ==
    /\ colorAdjustments' = [DefaultColor EXCEPT ![key] = value]
    /\ uncaught' = FALSE
    /\ UNCHANGED <<history, historyIndex, prompt, isLoading, isUiReady, error,
                   editHotspot, displayHotspot, activeTab, secondaryImage,
                   crop, completedCrop, isComparingModeActive, inflight,
                   handlerUrls>>
    /\ RunEffects
handleSliderChange(key, value) ==
    /\ colorAdjustments' = [colorAdjustments EXCEPT ![key] = value]
    /\ uncaught' = FALSE
    /\ UNCHANGED <<history, historyIndex, prompt, isLoading, isUiReady, error,
                   editHotspot, displayHotspot, activeTab, secondaryImage,
                   crop, completedCrop, isComparingModeActive, inflight,
                   handlerUrls>>
    /\ RunEffects
handleColorReset ==
    /\ colorAdjustments' = DefaultColor
    /\ uncaught' = FALSE
    /\ UNCHANGED <<history, historyIndex, prompt, isLoading, isUiReady, error,
                   editHotspot, displayHotspot, activeTab, secondaryImage,
                   crop, completedCrop, isComparingModeActive, inflight,
                   handlerUrls>>
    /\ RunEffects
toggleCompare ==
    /\ isComparingModeActive' = ~isComparingModeActive
    /\ uncaught' = FALSE
    /\ UNCHANGED <<history, historyIndex, prompt, isLoading, isUiReady, error,
                   editHotspot, displayHotspot, activeTab, secondaryImage,
                   crop, completedCrop, colorAdjustments, inflight,
                   handlerUrls>>
    /\ RunEffects
\* the toast's close button and its timeout both call onDismiss
onDismiss ==
    /\ error' = NoError
    /\ uncaught' = FALSE
    /\ UNCHANGED <<history, historyIndex, prompt, isLoading, isUiReady,
                   editHotspot, displayHotspot, activeTab, secondaryImage,
                   crop, completedCrop, isComparingModeActive,
                   colorAdjustments, inflight, handlerUrls>>
    /\ RunEffects
\* link.href = createObjectURL(currentImage); link.click(); revokeObjectURL(link.href)
handleDownload ==
    IF currentImage # NoFile
    THEN /\ handlerUrls' = (handlerUrls + 1) - 1
         /\ uncaught' = FALSE
         /\ UNCHANGED <<appVars, inflight, uiTimer, toastTimer, objectUrls>>
    ELSE NoChange
\* setTimeout(() => setIsUiReady(true), 500)
uiReadyTimeout ==
    /\ uiTimer
    /\ isUiReady' = TRUE
    /\ uiTimer' = FALSE
    /\ uncaught' = FALSE
    /\ UNCHANGED <<history, historyIndex, prompt, isLoading, error,
                   editHotspot, displayHotspot, activeTab, secondaryImage,
                   crop, completedCrop, isComparingModeActive,
                   colorAdjustments, inflight, handlerUrls>>
    /\ UrlEffects
    /\ ToastEffect

\* ------------------------------------------------- what the UI lets through
\* renderContent shows the editor only when currentImageUrl is set
EditorShown == currentImage # NoFile
\* seeded fault: the panels are not told about the loading flag
PanelLoadingNoFlag == ~isUiReady
\* the isLoading prop every panel receives
PanelLoading == isLoading \/ ~isUiReady
\* limits of the exploration
RoomInHistory == historyIndex + 2 <= MaxHistory
RoomInFlight == Len(inflight) < MaxInFlight
RoomForUrl == handlerUrls < MaxHandlerUrls
CanStartAi == EditorShown /\ RoomInHistory /\ RoomInFlight
CanStartCanvas == CanStartAi /\ RoomForUrl
Dirty ==
    (IF prompt # "" \/ editHotspot # NoSpot \/ displayHotspot # NoSpot THEN 1 ELSE 0)
    + (IF secondaryImage # NoFile THEN 1 ELSE 0)
    + (IF crop # NoCrop \/ completedCrop # NoCrop THEN 1 ELSE 0)
    + (IF colorAdjustments # DefaultColor THEN 1 ELSE 0)
    + (IF isComparingModeActive THEN 1 ELSE 0)
InScope == Dirty' <= MaxDirty

Upload == ~EditorShown /\ handleImageUpload(FreshFile(history, 0))
UploadNew == EditorShown /\ ~isLoading /\ handleUploadNew
UndoButton == EditorShown /\ canUndo /\ ~isLoading /\ isUiReady /\ handleUndo
RedoButton == EditorShown /\ canRedo /\ ~isLoading /\ isUiReady /\ handleRedo
\* the window keydown listener: Ctrl/Cmd+Z and Ctrl/Cmd+Y (or Shift+Z)
KeyUndo == handleUndo
KeyRedo == handleRedo
ResetButton == EditorShown /\ Len(history) > 1 /\ ~isLoading /\ isUiReady /\ handleReset
TabChangeAmong(tabs) ==
    \E tab \in tabs : EditorShown /\ ~isLoading /\ isUiReady /\ handleTabChange(tab)
TabChange == TabChangeAmong(Tabs)
CompareButton ==
    EditorShown /\ ~isLoading /\ Len(history) >= 2 /\ isUiReady /\ toggleCompare /\ InScope
TypePrompt ==
    \E value \in Prompts :
        /\ EditorShown /\ activeTab = "retouch" /\ ~isLoading /\ isUiReady
        /\ setPrompt(value) /\ InScope
ImageClick ==
    EditorShown /\ ~isComparingModeActive /\ activeTab # "crop" /\ handleImageClick /\ InScope
Generate ==
    /\ CanStartAi /\ activeTab = "retouch"
    /\ ~isLoading /\ trim(prompt) # "" /\ editHotspot # NoSpot /\ isUiReady
    /\ handleGenerate
ApplyAiEdit == CanStartAi /\ activeTab = "ai_edit" /\ ~PanelLoading /\ handleApplyAiEdit
ApplyFaceSwap ==
    /\ CanStartAi /\ activeTab = "faceswap" /\ ~PanelLoading /\ secondaryImage # NoFile
    /\ handleApplyFaceSwap
ApplyAdjustment == CanStartAi /\ activeTab = "adjust" /\ ~PanelLoading /\ handleApplyAdjustment
ApplyFilter == CanStartAi /\ activeTab = "filters" /\ ~PanelLoading /\ handleApplyFilter
ApplyClientFilter ==
    CanStartCanvas /\ activeTab = "filters" /\ ~PanelLoading /\ applyCanvasFilter
RotateButton == CanStartCanvas /\ ~isLoading /\ isUiReady /\ handleRotate
ApplyResize == CanStartCanvas /\ activeTab = "resize" /\ ~PanelLoading /\ handleApplyResize
ApplyColor ==
    /\ CanStartCanvas /\ activeTab = "color" /\ ~PanelLoading
    /\ colorAdjustments # DefaultColor
    /\ handleApplyColorAdjustments
\* CropPanel is not among the sources; like every other panel it is taken to
\* disable its button on the isLoading prop it receives.
CropPanelDisabled == PanelLoading
ApplyCrop ==
    /\ EditorShown /\ RoomInHistory /\ activeTab = "crop" /\ ~CropPanelDisabled
    /\ \E outcome \in {"drawn", "nocontext", "nopixels"} : handleApplyCrop(outcome)
SecondaryUpload ==
    /\ EditorShown /\ activeTab \in {"faceswap", "adjust"} /\ ~PanelLoading
    /\ secondaryImage = NoFile
    /\ handleSecondaryImageUpload(RefFile) /\ InScope
SecondaryClear ==
    /\ EditorShown /\ activeTab \in {"faceswap", "adjust"} /\ ~PanelLoading
    /\ secondaryImage # NoFile
    /\ handleClearSecondaryImage
CropDrag ==
    EditorShown /\ activeTab = "crop" /\ ~isComparingModeActive /\ setCrop(BoxCrop) /\ InScope
CropDragEnd ==
    /\ EditorShown /\ activeTab = "crop" /\ ~isComparingModeActive /\ crop # NoCrop
    /\ setCompletedCrop(crop) /\ InScope
SliderChange ==
    \E key \in {"brightness", "contrast", "saturation"}, value \in AdjustValues :
        /\ EditorShown /\ activeTab = "color" /\ ~PanelLoading
        /\ handleSliderChange(key, value) /\ InScope
ColorReset ==
    /\ EditorShown /\ activeTab = "color" /\ ~PanelLoading
    /\ colorAdjustments # DefaultColor
    /\ handleColorReset
DownloadButton == EditorShown /\ ~isLoading /\ handleDownload
DismissButton == error # NoError /\ onDismiss
UiReadyTimer == uiReadyTimeout
ServiceSettles == \E k \in DOMAIN inflight, r \in Replies : SettleAiWith(k, r)
ServiceRejects == \E k \in DOMAIN inflight : SettleAiRejected(k)
CanvasSettles ==
    \E k \in DOMAIN inflight, outcome \in CanvasOutcomes : SettleCanvas(k, outcome)

\* ---------------------------------------------------------- the editor
\* The observers are written only by the specifications that read them.
Quiet == UNCHANGED <<observers, canvasVars>>
Next ==
    \/ Upload /\ Quiet
    \/ UploadNew /\ Quiet
    \/ UndoButton /\ Quiet
    \/ RedoButton /\ Quiet
    \/ KeyUndo /\ Quiet
    \/ KeyRedo /\ Quiet
    \/ ResetButton /\ Quiet
    \/ TabChange /\ Quiet
    \/ CompareButton /\ Quiet
    \/ TypePrompt /\ Quiet
    \/ ImageClick /\ Quiet
    \/ Generate /\ Quiet
    \/ ApplyAiEdit /\ Quiet
    \/ ApplyFaceSwap /\ Quiet
    \/ ApplyAdjustment /\ Quiet
    \/ ApplyFilter /\ Quiet
    \/ ApplyClientFilter /\ Quiet
    \/ RotateButton /\ Quiet
    \/ ApplyResize /\ Quiet
    \/ ApplyColor /\ Quiet
    \/ ApplyCrop /\ Quiet
    \/ SecondaryUpload /\ Quiet
    \/ SecondaryClear /\ Quiet
    \/ CropDrag /\ Quiet
    \/ CropDragEnd /\ Quiet
    \/ SliderChange /\ Quiet
    \/ ColorReset /\ Quiet
    \/ DownloadButton /\ Quiet
    \/ DismissButton /\ Quiet
    \/ UiReadyTimer /\ Quiet
    \/ ServiceSettles /\ Quiet
    \/ ServiceRejects /\ Quiet
    \/ CanvasSettles /\ Quiet
Spec == Init /\ [][Next]_vars

\* ------------------------------------------------------- the clock
\* One tick of the clock the toast timeout is measured in.  A timeout that
\* is due fires before more time passes, and the 500 ms readiness timeout
\* does not stay pending over a tick.
Tick ==
    /\ toastTimer > 0
    /\ ~uiTimer
    /\ toastTimer' = toastTimer - 1
    /\ UNCHANGED <<appVars, inflight, uiTimer, objectUrls, handlerUrls, uncaught>>
\* setTimeout(() => { onDismiss() }, 5000)
ToastTimeout == toastTimer = 0 /\ onDismiss

\* ------------------------------------------- the editor with a clock
\* toastAge counts the ticks since the message now shown was set.
Aged ==
    /\ toastAge' = IF error' = NoError \/ error' # error THEN 0 ELSE toastAge
    /\ UNCHANGED <<response, trail, canvasVars>>
NextToast ==
    \/ Upload /\ Aged
    \/ UiReadyTimer /\ Aged
    \/ TypePrompt /\ Aged
    \/ KeyUndo /\ Aged
    \/ KeyRedo /\ Aged
    \/ RotateButton /\ Aged
    \/ CanvasSettles /\ Aged
    \/ DismissButton /\ Aged
    \/ ToastTimeout /\ Aged
    \/ Tick /\ toastAge <= ToastTicks /\ toastAge' = toastAge + 1
       /\ UNCHANGED <<response, trail, canvasVars>>
SpecToast == Init /\ [][NextToast]_vars

\* ------------------------------- the editor with the service observed
\* response holds, right after a reply of the service was handled, the reply
\* together with the request it answered and the history and position the
\* continuation found; every other step empties it.
Seen(k, r) == [reply |-> r, req |-> inflight[k], before |-> history, at |-> historyIndex]
Forget == response' = <<>> /\ UNCHANGED <<toastAge, trail, canvasVars>>
ReplyArrives ==
    \E k \in DOMAIN inflight, r \in Responses :
        /\ SettleAiWith(k, r)
        /\ response' = <<Seen(k, r)>>
        /\ UNCHANGED <<toastAge, trail, canvasVars>>
NextApi ==
    \/ Upload /\ Forget
    \/ UiReadyTimer /\ Forget
    \/ TabChange /\ Forget
    \/ TypePrompt /\ Forget
    \/ ImageClick /\ Forget
    \/ Generate /\ Forget
    \/ ApplyFilter /\ Forget
    \/ KeyUndo /\ Forget
    \/ KeyRedo /\ Forget
    \/ DismissButton /\ Forget
    \/ ReplyArrives
    \/ ServiceRejects /\ Forget
SpecApi == Init /\ [][NextApi]_vars

\* --------------------------- the editor with the version trail observed
\* trail follows an upload through the commits made with no undo in between
\* (phase "linear", n commits, h the history they built), one undo after
\* them ("undone", h the history before the undo) and a redo directly after
\* that undo ("redone").  Any other change of history or position ends it.
NoTrail == [phase |-> "none", n |-> 0, h |-> <<>>]
Track(event) ==
    /\ trail' =
         CASE event = "upload" -> [phase |-> "linear", n |-> 0, h |-> history']
           [] event = "edit" ->
                IF history' = history THEN trail
                ELSE IF trail.phase = "linear"
                     THEN [phase |-> "linear", n |-> trail.n + 1, h |-> history']
                     ELSE NoTrail
           [] event = "undo" ->
                IF ~canUndo THEN trail
                ELSE IF trail.phase = "linear"
                     THEN [phase |-> "undone", n |-> trail.n, h |-> history]
                     ELSE NoTrail
           [] event = "redo" ->
                IF ~canRedo THEN trail
                ELSE IF trail.phase = "undone"
                     THEN [trail EXCEPT !.phase = "redone"]
                     ELSE NoTrail
           [] event = "leave" -> NoTrail
           [] OTHER -> trail
    /\ UNCHANGED <<toastAge, response, canvasVars>>
NextTrail ==
    \/ Upload /\ Track("upload")
    \/ UploadNew /\ Track("leave")
    \/ ResetButton /\ Track("leave")
    \/ UndoButton /\ Track("undo")
    \/ KeyUndo /\ Track("undo")
    \/ RedoButton /\ Track("redo")
    \/ KeyRedo /\ Track("redo")
    \/ UiReadyTimer /\ Track("none")
    \/ TabChange /\ Track("none")
    \/ DismissButton /\ Track("none")
    \/ ApplyFilter /\ Track("none")
    \/ RotateButton /\ Track("none")
    \/ CropDrag /\ Track("none")
    \/ CropDragEnd /\ Track("none")
    \/ ApplyCrop /\ Track("edit")
    \/ ServiceSettles /\ Track("edit")
    \/ ServiceRejects /\ Track("edit")
    \/ CanvasSettles /\ Track("edit")
SpecTrail == Init /\ [][NextTrail]_vars

\* ============================================== the canvas operations
\* ------------------------- applyCanvasFilter's pixel loop (App.tsx:327-349)
\* imageData.data is a Uint8ClampedArray: a store converts the number num/den
\* (den > 0) by clamping it to 0..255 and rounding it to the nearest integer,
\* a number halfway between two integers to the even one.
Uint8Clamped(num, den) ==
    IF num <= 0 THEN 0
    ELSE IF num >= 255 * den THEN 255
    ELSE LET q == num \div den
             r == num % den
         IN IF 2 * r < den THEN q
            ELSE IF 2 * r > den THEN q + 1
            ELSE IF q % 2 = 0 THEN q ELSE q + 1
Min(a, b) == IF a <= b THEN a ELSE b
\* seeded fault: the luminance-weighted average instead of the plain one
grayscaleLuma(r, g, b) ==
    LET gray == Uint8Clamped(299 * r + 587 * g + 114 * b, 1000) IN <<gray, gray, gray>>
\* seeded fault: the store to the blue channel is missing
grayscaleKeepsBlue(r, g, b) ==
    LET gray == Uint8Clamped(r + g + b, 3) IN <<gray, gray, b>>
\* const gray = (r + g + b) / 3, stored to the three colour channels
grayscale(r, g, b) ==
    LET gray == Uint8Clamped(r + g + b, 3) IN <<gray, gray, gray>>
\* seeded fault: green and blue are computed from channels already overwritten
sepiaOverwritten(r, g, b) ==
    LET sepiaR == Uint8Clamped(Min(255000, 393 * r + 769 * g + 189 * b), 1000)
        sepiaG == Uint8Clamped(Min(255000, 349 * sepiaR + 686 * g + 168 * b), 1000)
        sepiaB == Uint8Clamped(Min(255000, 272 * sepiaR + 534 * sepiaG + 131 * b), 1000)
    IN <<sepiaR, sepiaG, sepiaB>>
\* Math.min(255, r * 0.393 + g * 0.769 + b * 0.189) and so on, in thousandths
sepia(r, g, b) ==
    <<Uint8Clamped(Min(255000, 393 * r + 769 * g + 189 * b), 1000),
      Uint8Clamped(Min(255000, 349 * r + 686 * g + 168 * b), 1000),
      Uint8Clamped(Min(255000, 272 * r + 534 * g + 131 * b), 1000)>>
\* for (i = 0; i < data.length; i += 4): data is R, G, B, A of pixel after
\* pixel; r, g and b are read before any channel of the pixel is stored,
\* and data[i + 3] is never written.
PixelLoop(data, filter) ==
    [k \in DOMAIN data |->
        LET channel == (k - 1) % 4
            i == k - channel
            rgb == IF filter = "grayscale" THEN grayscale(data[i], data[i + 1], data[i + 2])
                   ELSE IF filter = "sepia" THEN sepia(data[i], data[i + 1], data[i + 2])
                   ELSE <<data[i], data[i + 1], data[i + 2]>>
        IN IF channel = 3 THEN data[k] ELSE rgb[channel + 1]]
\* a PNG keeps the bytes of opaque pixels; a translucent pixel may come back
\* from the canvas with its channels changed (premultiplied storage)
Opaque(data) == \A k \in DOMAIN data : (k - 1) % 4 = 3 => data[k] = 255
\* One run of applyCanvasFilter on the current image, from drawImage to
\* addImageToHistory, taken as one step: getImageData, the loop,
\* putImageData, toDataURL('image/png'), then the commit.  source keeps what
\* getImageData read, filter the filter of this run, before the filter of the
\* run that made the current image ("none" for the uploaded image).  A
\* second run reads the pixels the first one stored; it is taken for opaque
\* images.
applyCanvasFilterPixels(filter) ==
    /\ imageData # <<>>
    /\ imageData.before = "none"
    /\ imageData.filter # "none" => Opaque(imageData.data)
    /\ imageData' = [source |-> imageData.data,
                     data |-> PixelLoop(imageData.data, filter),
                     filter |-> filter,
                     before |-> imageData.filter]
    /\ addImageToHistory(FreshFile(history, historyIndex + 1), history, historyIndex)
    /\ uncaught' = FALSE
    /\ UNCHANGED <<prompt, isLoading, error, editHotspot, displayHotspot,
                   activeTab, inflight, handlerUrls>>
    /\ RunEffects
    /\ UNCHANGED <<observers, naturalSize, imageDimensions, resizePanel, cropJob,
                   presetPanel>>

\* The pixels the loop is run on: one or two pixels with channels at the ends
\* and inside the 8-bit range.  None of them puts a sepia sum exactly halfway
\* between two integers, where the stored value would depend on the rounding
\* of the double-precision sum.
Channels == {0, 128, 255}
Alphas == {128, 255}
PixelBytes == {<<r, g, b, a>> : r \in Channels, g \in Channels, b \in Channels, a \in Alphas}
ImageDatas == PixelBytes \cup {p \o q : p \in PixelBytes, q \in PixelBytes}
InitPixels ==
    /\ history = <<0>>
    /\ historyIndex = 0
    /\ prompt = ""
    /\ isLoading = FALSE
    /\ isUiReady = TRUE
    /\ error = NoError
    /\ editHotspot = NoSpot
    /\ displayHotspot = NoSpot
    /\ activeTab = "filters"
    /\ secondaryImage = NoFile
    /\ crop = NoCrop
    /\ completedCrop = NoCrop
    /\ isComparingModeActive = FALSE
    /\ colorAdjustments = DefaultColor
    /\ inflight = <<>>
    /\ uiTimer = FALSE
    /\ toastTimer = NoToast
    /\ objectUrls = {<<"current", 0>>, <<"original", 0>>}
    /\ handlerUrls = 0
    /\ uncaught = FALSE
    /\ toastAge = 0
    /\ response = <<>>
    /\ trail = [phase |-> "none", n |-> 0, h |-> <<>>]
    /\ imageData \in {[source |-> d, data |-> d, filter |-> "none", before |-> "none"] :
                        d \in ImageDatas}
    /\ naturalSize = <<>>
    /\ imageDimensions = <<>>
    /\ resizePanel = <<>>
    /\ cropJob = <<>>
    /\ presetPanel = <<>>
FilterGrayscale == applyCanvasFilterPixels("grayscale")
FilterSepia == applyCanvasFilterPixels("sepia")
NextPixels ==
    \/ FilterGrayscale
    \/ FilterSepia
SpecPixels == InitPixels /\ [][NextPixels]_vars

\* ------------------------------ handleRotate's canvas (App.tsx:382-394)
\* seeded fault: the canvas keeps the image's width and height
rotateCanvasUnswapped(image) == [width |-> image.width, height |-> image.height]
\* canvas.width = image.naturalHeight; canvas.height = image.naturalWidth.
\* The PNG made of the canvas has the canvas's size.
rotateCanvas(image) == [width |-> image.height, height |-> image.width]

\* The editor with the natural size of every File followed: an upload brings
\* an image of some size, and rotations follow one another.
MaxRotations == 4
Sizes == {[width |-> w, height |-> h] : w \in {1, 2, 3}, h \in {1, 2}}
SameCanvas ==
    UNCHANGED <<observers, imageData, imageDimensions, resizePanel, cropJob, presetPanel>>
UploadSized ==
    /\ Upload
    /\ \E size \in Sizes : naturalSize' = (history'[1] :> size)
    /\ SameCanvas
RotateStart ==
    /\ EditorShown /\ RoomInFlight /\ RoomForUrl /\ historyIndex < MaxRotations
    /\ ~isLoading /\ isUiReady
    /\ handleRotate
    /\ UNCHANGED naturalSize
    /\ SameCanvas
RotateSettles ==
    /\ \E k \in DOMAIN inflight, outcome \in CanvasOutcomes :
         /\ SettleCanvas(k, outcome)
         /\ naturalSize' =
              IF history' = history THEN naturalSize
              ELSE (currentImage' :> rotateCanvas(naturalSize[inflight[k].image]))
                   @@ naturalSize
    /\ SameCanvas
RotateReady == UiReadyTimer /\ UNCHANGED naturalSize /\ SameCanvas
NextRotate ==
    \/ UploadSized
    \/ RotateStart
    \/ RotateSettles
    \/ RotateReady
SpecRotate == Init /\ [][NextRotate]_vars

\* ----------------------------------------- ResizePanel (ResizePanel.tsx)
\* The text of an input field is a string; NaN is what parseInt gives for a
\* text that does not start with a number.
NaN == <<>>
ParseRange == -2 .. 255
Inputs == {"", "0", "-2", "1.5", "1", "2", "25"}
\* parseInt(text, 10): the leading integer of the text
parseInt(text) ==
    IF text = "" THEN NaN
    ELSE IF text = "1.5" THEN <<1>>
    ELSE <<CHOOSE n \in ParseRange : ToString(n) = text>>
\* originalWidth > 0 && originalHeight > 0 ? originalWidth / originalHeight : 1,
\* kept as the pair of its numerator and denominator
aspectRatio ==
    IF imageDimensions.width > 0 /\ imageDimensions.height > 0
    THEN <<imageDimensions.width, imageDimensions.height>>
    ELSE <<1, 1>>
\* Math.round of the exact quotient num / den (den > 0): halves go up
MathRound(num, den) == (2 * num + den) \div (2 * den)
\* newWidthNum / aspectRatio is the quotient of two doubles.  Of the inputs
\* used here whose exact quotient ends in one half, these (newWidthNum,
\* originalWidth, originalHeight) have a double quotient just below the half:
\* 25 / (50 / 83) is 41.49999999999999.  Every other double quotient and
\* product of the inputs rounds as the exact one.
QuotientBelowHalf == {<<25, 50, 83>>}
\* Math.round(newWidthNum / aspectRatio)
RoundedQuotient(n, ratio) ==
    IF <<n, ratio[1], ratio[2]>> \in QuotientBelowHalf
    THEN MathRound(n * ratio[2], ratio[1]) - 1
    ELSE MathRound(n * ratio[2], ratio[1])
\* Math.round(newHeightNum * aspectRatio)
RoundedProduct(n, ratio) == MathRound(n * ratio[1], ratio[2])
SamePanelRest ==
    UNCHANGED <<appVars, envVars, observers, imageData, naturalSize,
                imageDimensions, cropJob, presetPanel>>
handleWidthChange(newWidth) ==
    LET newWidthNum == parseInt(newWidth) IN
    /\ resizePanel' =
         [resizePanel EXCEPT
            !.width = newWidth,
            !.height = IF resizePanel.isLocked /\ newWidth # ""
                          /\ newWidthNum # NaN /\ newWidthNum[1] > 0
                       THEN ToString(RoundedQuotient(newWidthNum[1], aspectRatio))
                       ELSE @]
    /\ SamePanelRest
handleHeightChange(newHeight) ==
    LET newHeightNum == parseInt(newHeight) IN
    /\ resizePanel' =
         [resizePanel EXCEPT
            !.height = newHeight,
            !.width = IF resizePanel.isLocked /\ newHeight # ""
                         /\ newHeightNum # NaN /\ newHeightNum[1] > 0
                      THEN ToString(RoundedProduct(newHeightNum[1], aspectRatio))
                      ELSE @]
    /\ SamePanelRest
\* onClick={() => setIsLocked(!isLocked)}
toggleLock ==
    /\ resizePanel' = [resizePanel EXCEPT !.isLocked = ~@]
    /\ SamePanelRest

\* The panel on the resize tab of an editor that shows an uploaded image of
\* some size: width and height start as the image's, the lock starts closed.
Dimensions == {[width |-> w, height |-> h] : w \in {4, 50}, h \in {3, 83}}
InitResize ==
    /\ history = <<0>>
    /\ historyIndex = 0
    /\ prompt = ""
    /\ isLoading = FALSE
    /\ isUiReady = TRUE
    /\ error = NoError
    /\ editHotspot = NoSpot
    /\ displayHotspot = NoSpot
    /\ activeTab = "resize"
    /\ secondaryImage = NoFile
    /\ crop = NoCrop
    /\ completedCrop = NoCrop
    /\ isComparingModeActive = FALSE
    /\ colorAdjustments = DefaultColor
    /\ inflight = <<>>
    /\ uiTimer = FALSE
    /\ toastTimer = NoToast
    /\ objectUrls = {<<"current", 0>>, <<"original", 0>>}
    /\ handlerUrls = 0
    /\ uncaught = FALSE
    /\ toastAge = 0
    /\ response = <<>>
    /\ trail = NoTrail
    /\ imageData = <<>>
    /\ naturalSize = <<>>
    /\ imageDimensions \in Dimensions
    /\ resizePanel = [width |-> ToString(imageDimensions.width),
                      height |-> ToString(imageDimensions.height),
                      isLocked |-> TRUE]
    /\ cropJob = <<>>
    /\ presetPanel = <<>>
WidthInput == \E text \in Inputs : ~PanelLoading /\ handleWidthChange(text)
HeightInput == \E text \in Inputs : ~PanelLoading /\ handleHeightChange(text)
LockButton == toggleLock
NextResize ==
    \/ WidthInput
    \/ HeightInput
    \/ LockButton
SpecResize == InitResize /\ [][NextResize]_vars

\* --------------------------- handleApplyCrop's canvas (App.tsx:479-511)
\* image.width x image.height is the size the <img> is laid out at,
\* completedCrop is in those displayed pixels.  A quotient is kept as the
\* pair of its numerator and denominator.
\* window.devicePixelRatio || 1; 0 stands for a missing devicePixelRatio
pixelRatio(devicePixelRatio) == IF devicePixelRatio = 0 THEN 1 ELSE devicePixelRatio
\* the drawImage call: the source rectangle is completedCrop scaled by
\* scaleX = naturalWidth / width and scaleY = naturalHeight / height; the
\* destination fills the canvas, which is completedCrop times pixelRatio.
\* The PNG made of the canvas has the canvas's size.
cropCanvas(image, c, devicePixelRatio) ==
    [sx |-> <<c.x * image.naturalWidth, image.width>>,
     sy |-> <<c.y * image.naturalHeight, image.height>>,
     sWidth |-> <<c.width * image.naturalWidth, image.width>>,
     sHeight |-> <<c.height * image.naturalHeight, image.height>>,
     width |-> c.width * pixelRatio(devicePixelRatio),
     height |-> c.height * pixelRatio(devicePixelRatio)]
drawCrop ==
    /\ cropJob # <<>>
    /\ cropJob.canvas = <<>>
    /\ cropJob' = [cropJob EXCEPT
                     !.canvas = <<cropCanvas(cropJob.image, cropJob.completedCrop,
                                             cropJob.devicePixelRatio)>>]
    /\ UNCHANGED <<appVars, envVars, observers, imageData, naturalSize,
                   imageDimensions, resizePanel, presetPanel>>

\* The images, crop rectangles and pixel ratios the canvas is computed for:
\* images shown at their natural size and at half of it, rectangles inside
\* the displayed image.
CropImages ==
    {[naturalWidth |-> nw, naturalHeight |-> nh, width |-> dw, height |-> dh] :
        nw \in {2, 4}, nh \in {2, 4}, dw \in {1, 2}, dh \in {1, 2}}
CropRects(image) ==
    {[x |-> x, y |-> y, width |-> w, height |-> h] :
        x \in 0 .. (image.width - 1), y \in 0 .. (image.height - 1),
        w \in 1 .. image.width, h \in 1 .. image.height}
InitCrop ==
    /\ InitEditor
    /\ imageData = <<>>
    /\ naturalSize = <<>>
    /\ imageDimensions = <<>>
    /\ resizePanel = <<>>
    /\ presetPanel = <<>>
    /\ \E image \in CropImages, devicePixelRatio \in {0, 1, 2} :
         \E c \in CropRects(image) :
            /\ c.x + c.width <= image.width
            /\ c.y + c.height <= image.height
            /\ cropJob = [image |-> image, completedCrop |-> c,
                          devicePixelRatio |-> devicePixelRatio, canvas |-> <<>>]
NextCrop ==
    \/ drawCrop
SpecCrop == InitCrop /\ [][NextCrop]_vars

\* ================================================================ claims
\* steps that commit a version, and steps that only move the position
Committed == history # <<>> /\ history' # <<>> /\ history' # history
PositionChanged == history' = history /\ historyIndex' # historyIndex

\* C1: whenever the version history is non-empty, the current position is an
\* index of it: 0 <= historyIndex <= history.length - 1.
HistoryIndexInBounds ==
    history # <<>> => (0 <= historyIndex /\ historyIndex <= Len(history) - 1)
\* the history is full and the position was taken back to its first entry
HistoryIndexInBounds_W ==
    Len(history) = MaxHistory /\ historyIndex = 0 /\ ~isUiReady

\* C2: a commit made while the current position i is not the last entry
\* leaves the old entries 0..i followed by the new version, makes the new
\* version current and leaves nothing to redo.
CommitTruncatesAtCurrent ==
    [][(Committed /\ canRedo) =>
         /\ history' = Append(SubSeq(history, 1, historyIndex + 1), currentImage')
         /\ historyIndex' = Len(history') - 1
         /\ ~canRedo']_vars

\* C4: after a commit and after a change of position the transient edit
\* state is at its default: no hotspot (edit and display), no secondary
\* image, no crop rectangle, brightness / contrast / saturation at 100.
TransientDefault ==
    /\ editHotspot = NoSpot /\ displayHotspot = NoSpot
    /\ secondaryImage = NoFile
    /\ crop = NoCrop /\ completedCrop = NoCrop
    /\ colorAdjustments = DefaultColor
TransientResetOnChange ==
    [][(Committed \/ PositionChanged) => TransientDefault']_vars

\* C5: at most one edit request is outstanding at any time, and the loading
\* flag is set for as long as it is.
AtMostOneRequest == Len(inflight) <= 1 /\ (inflight # <<>> => isLoading)
\* a request is outstanding and only the loading flag holds the controls back
AtMostOneRequest_W ==
    /\ Len(inflight) = 1 /\ isUiReady /\ RoomInHistory
    /\ activeTab \in {"filters", "ai_edit", "adjust", "resize"}

\* C6: an edit that fails leaves the history and the position as they were
\* and sets an error message.
EditFailed == (Len(inflight') < Len(inflight) /\ ~Committed) \/ uncaught'
FailedEditSetsError ==
    [][EditFailed =>
         /\ history' = history /\ historyIndex' = historyIndex
         /\ error' # NoError]_vars

\* C10: every object URL still unreleased belongs to an image now shown or
\* to an edit handler that has not finished.
CanvasInFlight == {k \in DOMAIN inflight : inflight[k].op \in CanvasOps}
ObjectUrlsReleased ==
    /\ objectUrls \subseteq {<<"current", currentImage>>, <<"original", originalImage>>,
                             <<"secondary", SecondaryShown>>}
    /\ handlerUrls = Cardinality(CanvasInFlight)

\* C3: after an upload and N >= 1 commits with no undo in between, version N
\* is current; one undo makes version N-1 current; a redo right after it
\* makes version N current again, with the history and the position as they
\* were before the undo.
UndoRedoRoundTrip ==
    /\ trail.phase = "linear" =>
         history = trail.h /\ Len(history) = trail.n + 1 /\ historyIndex = trail.n
    /\ trail.phase = "undone" =>
         /\ trail.n >= 1
         /\ history = trail.h
         /\ historyIndex = trail.n - 1
         /\ currentImage = trail.h[trail.n]
    /\ trail.phase = "redone" =>
         /\ history = trail.h
         /\ historyIndex = trail.n
         /\ currentImage = trail.h[trail.n + 1]
\* two commits after the upload, then undo, then redo
UndoRedoRoundTrip_W == trail.phase = "redone" /\ trail.n = 2

\* C7: handleApiResponse returns a data URL exactly when the prompt was not
\* blocked and the first candidate has a part with inline image data, and
\* the URL is that of such a part; otherwise it throws a non-empty message,
\* which the edit handler shows as the error, leaving history and position.
InlineImages(r) ==
    IF r.candidates = <<>> THEN {}
    ELSE {r.candidates[1].parts[k].inlineData[1] :
            k \in {j \in DOMAIN r.candidates[1].parts :
                     r.candidates[1].parts[j].inlineData # <<>>}}
ApiResponseHandled ==
    response # <<>> =>
        LET seen == response[1]
            r == seen.reply
            res == handleApiResponse(r)
        IN /\ res.ok <=> (r.blockReason = "" /\ InlineImages(r) # {})
           /\ res.ok => res.value \in InlineImages(r)
           /\ ~res.ok =>
                /\ res.message # ""
                /\ error = Failed(res.message)
                /\ history = seen.before /\ historyIndex = seen.at
\* a reply with text only, finished with STOP, was handled: its message shows
ApiResponseHandled_W ==
    /\ response # <<>>
    /\ response[1].reply.blockReason = ""
    /\ InlineImages(response[1].reply) = {}
    /\ FinishReason(response[1].reply) = "STOP"
    /\ response[1].reply.text = "hi"
    /\ error = Failed(MsgText)

\* C8: the error message is cleared no later than the toast timeout after it
\* was set, whatever else happens in between.
ToastExpiresInTime == error # NoError => toastAge <= ToastTicks

\* C9: only its completion takes a request out of flight, and a reply of the
\* service that carries a well-formed image adds exactly one version, the
\* new current one, whatever happened while the request was in flight.
ImageReply(r) ==
    /\ r.blockReason = ""
    /\ FirstImagePart(r) # <<>>
    /\ FirstImagePart(r)[1].inlineData[1].mime # ""
    /\ FirstImagePart(r)[1].inlineData[1].data # "!"
Completion == response' # <<>> \/ ServiceRejects \/ CanvasSettles
RequestNeverCancelled ==
    [][/\ ~Completion =>
            /\ Len(inflight') >= Len(inflight)
            /\ \A k \in DOMAIN inflight : inflight'[k] = inflight[k]
       /\ (response' # <<>> /\ ImageReply(response'[1].reply)) =>
            /\ Len(history') = response'[1].req.i + 2
            /\ Cardinality(Range(history') \ Range(history)) = 1
            /\ currentImage' \notin Range(history)
            /\ currentImage' = history'[Len(history')]]_vars
\* the position was moved from the keyboard while the request was in flight,
\* and the image of the reply was committed all the same
RequestNeverCancelled_W ==
    /\ response # <<>>
    /\ ImageReply(response[1].reply)
    /\ response[1].at # response[1].req.i
    /\ Len(history) = Len(response[1].before) + 1

\* C11: every request to the generative service carries one or two images
\* followed by exactly one text directive, the last part: the image the edit
\* was started on comes first; retouch, filter and AI edit send nothing
\* else; adjustment adds the reference image when there is one; face swap
\* adds the secondary image as the target.
ImagesOf(parts) == {j \in DOMAIN parts : parts[j].inlineData # <<>>}
TextsOf(parts) == {j \in DOMAIN parts : parts[j].text # ""}
RequestCarriesImagesAndText ==
    \A k \in DOMAIN inflight :
        inflight[k].op \in AiOps =>
            LET req == inflight[k]
                parts == RequestParts(req)
            IN /\ Len(parts) \in {2, 3}
               /\ TextsOf(parts) = {Len(parts)}
               /\ ImagesOf(parts) = 1 .. (Len(parts) - 1)
               /\ \A j \in ImagesOf(parts) : parts[j].inlineData[1] # NoFile
               /\ parts[1].inlineData = <<req.image>>
               /\ req.op \in {"retouch", "filter", "ai_edit"} => Len(parts) = 2
               /\ req.op = "adjust" /\ req.ref = NoFile => Len(parts) = 2
               /\ req.op = "adjust" /\ req.ref # NoFile =>
                    Len(parts) = 3 /\ parts[2].inlineData = <<req.ref>>
               /\ req.op = "faceswap" =>
                    Len(parts) = 3 /\ parts[2].inlineData = <<req.ref>>
\* an adjustment was started with a reference image chosen
RequestCarriesImagesAndText_W ==
    \E k \in DOMAIN inflight : inflight[k].op = "adjust" /\ inflight[k].ref # NoFile

\* C12: the grayscale filter sets R, G and B of every pixel to one value,
\* the plain average (R + G + B) / 3 of the pixel's original channels rounded
\* to an integer by the 8-bit store, and leaves every alpha as it was.
PixelStarts(data) == {i \in DOMAIN data : (i - 1) % 4 = 0}
GrayscaleIsPlainAverage ==
    (imageData # <<>> /\ imageData.filter = "grayscale") =>
        /\ Len(imageData.data) = Len(imageData.source)
        /\ \A i \in PixelStarts(imageData.source) :
             LET sum == imageData.source[i] + imageData.source[i + 1] + imageData.source[i + 2]
                 gray == imageData.data[i]
             IN /\ imageData.data[i + 1] = gray /\ imageData.data[i + 2] = gray
                /\ gray \in 0 .. 255
                /\ 3 * gray - sum \in {-1, 0, 1}
                /\ imageData.data[i + 3] = imageData.source[i + 3]
\* a pixel whose average is not an integer was filtered
GrayscaleIsPlainAverage_W ==
    /\ imageData # <<>> /\ imageData.filter = "grayscale"
    /\ imageData.source = <<128, 255, 0, 128, 255, 255, 0, 255>>
    /\ imageData.data = <<128, 128, 128, 128, 170, 170, 170, 255>>

\* C13: the sepia filter gives every pixel R' = 0.393R + 0.769G + 0.189B,
\* G' = 0.349R + 0.686G + 0.168B, B' = 0.272R + 0.534G + 0.131B, all from the
\* pixel's original R, G, B, each clamped to 0..255 (and stored as the
\* nearest integer); alpha stays; equal input pixels give equal output pixels.
SepiaStored(out, r, g, b, weights) ==
    LET exact == Min(255000, weights[1] * r + weights[2] * g + weights[3] * b)
    IN out \in 0 .. 255 /\ 1000 * out - exact \in -500 .. 500
SepiaByFormula ==
    (imageData # <<>> /\ imageData.filter = "sepia") =>
        /\ Len(imageData.data) = Len(imageData.source)
        /\ \A i \in PixelStarts(imageData.source) :
             LET r == imageData.source[i]
                 g == imageData.source[i + 1]
                 b == imageData.source[i + 2]
             IN /\ SepiaStored(imageData.data[i], r, g, b, <<393, 769, 189>>)
                /\ SepiaStored(imageData.data[i + 1], r, g, b, <<349, 686, 168>>)
                /\ SepiaStored(imageData.data[i + 2], r, g, b, <<272, 534, 131>>)
                /\ imageData.data[i + 3] = imageData.source[i + 3]
        /\ \A i, j \in PixelStarts(imageData.source) :
             SubSeq(imageData.source, i, i + 3) = SubSeq(imageData.source, j, j + 3)
                => SubSeq(imageData.data, i, i + 3) = SubSeq(imageData.data, j, j + 3)
\* a pixel that is clamped in red and green only, next to one that is not
SepiaByFormula_W ==
    /\ imageData # <<>> /\ imageData.filter = "sepia"
    /\ imageData.source = <<255, 255, 255, 255, 128, 128, 128, 128>>
    /\ imageData.data = <<255, 255, 239, 255, 173, 154, 120, 128>>

\* C14: a rotation commits exactly one new version, whose width and height
\* are the height and width of the image it was made from; the fourth of
\* four successive rotations brings back the dimensions of the first image,
\* four entries after it.
RotateSwapsDimensions ==
    [][Committed =>
         /\ history' = Append(history, currentImage')
         /\ currentImage' \notin Range(history)
         /\ naturalSize'[currentImage'].width = naturalSize[currentImage].height
         /\ naturalSize'[currentImage'].height = naturalSize[currentImage].width
         /\ Len(history') = 5 => naturalSize'[currentImage'] = naturalSize[history[1]]]_vars
\* an image wider than high after four rotations
RotateSwapsDimensions_W ==
    /\ Len(history) = 5 /\ historyIndex = 4
    /\ naturalSize[history[1]] = [width |-> 3, height |-> 2]
    /\ naturalSize[history[2]] = [width |-> 2, height |-> 3]
    /\ naturalSize[currentImage] = [width |-> 3, height |-> 2]

\* C15: with the aspect lock on, a width text that parses to a positive
\* integer W' sets the height field to round(W' * originalHeight /
\* originalWidth); with the lock off, or for an empty, non-numeric or
\* non-positive width, the height field stays as it was.
WidthChangeKeepsAspect ==
    [][\A text \in Inputs :
         handleWidthChange(text) =>
            LET parsed == parseInt(text) IN
            IF resizePanel.isLocked /\ parsed # NaN /\ parsed[1] > 0
            THEN resizePanel'.height =
                   ToString(MathRound(parsed[1] * imageDimensions.height,
                                      imageDimensions.width))
            ELSE resizePanel'.height = resizePanel.height]_vars

\* C16: a slider changes its own parameter and leaves the other two as they
\* are, so that each can be taken back to 100 by itself; the panel's reset
\* sets brightness, contrast and saturation to 100.
SliderKeys == {"brightness", "contrast", "saturation"}
SlidersIndependent ==
    [][/\ SliderChange =>
            \E key \in SliderKeys :
                \A other \in SliderKeys \ {key} :
                    colorAdjustments'[other] = colorAdjustments[other]
       /\ ColorReset => colorAdjustments' = DefaultColor]_vars
\* two sliders were moved, one after the other
SlidersIndependent_W ==
    /\ colorAdjustments.brightness = 150
    /\ colorAdjustments.contrast = 150
    /\ colorAdjustments.saturation = DefaultAdjust

\* C18: while an edit is in flight or the UI is not ready the position in
\* the history does not move: undo and redo do nothing, from the buttons and
\* from the keyboard.
UndoRedoGated ==
    [][(isLoading \/ ~isUiReady) => ~PositionChanged]_vars

\* C19: isUiReady, once set to false while an image is loaded, becomes true
\* again without user input.  Only the readiness timeout sets it to true, so
\* this is: whenever isUiReady is false while an image is loaded, that
\* timeout is pending.
UiReadyComesBack == (EditorShown /\ ~isUiReady) => uiTimer

\* C20: an edit started on the version at position i of history h that
\* completes with an image leaves the history h[0..i] followed by the new
\* version, at position i + 1, wherever the keyboard moved the position
\* while the request was in flight.
ResultFollowsItsSource ==
    [][(response' # <<>> /\ ImageReply(response'[1].reply)) =>
         LET req == response'[1].req IN
         /\ history' = Append(SubSeq(req.h, 1, req.i + 1), currentImage')
         /\ historyIndex' = req.i + 1
         /\ history'[historyIndex'] = req.image
         /\ currentImage' \notin Range(req.h)]_vars
\* the request was started on the second version, the position was undone
\* to the first while it ran, and the result became the third version
ResultFollowsItsSource_W ==
    /\ response # <<>>
    /\ ImageReply(response[1].reply)
    /\ response[1].req.i = 1 /\ response[1].at = 0
    /\ Len(history) = 3 /\ historyIndex = 2
    /\ history[2] = response[1].req.image

\* C17: for a completed crop (x, y, width, height) on an image displayed at
\* dw x dh with natural size nw x nh, the region read is (x * nw / dw,
\* y * nh / dh, width * nw / dw, height * nh / dh) and the committed version
\* has the size of that region, width * nw / dw by height * nh / dh.
SameQuotient(p, q) == p[1] * q[2] = q[1] * p[2]
CropAtNaturalResolution ==
    (cropJob # <<>> /\ cropJob.canvas # <<>>) =>
        LET image == cropJob.image
            c == cropJob.completedCrop
            canvas == cropJob.canvas[1]
        IN /\ SameQuotient(canvas.sx, <<c.x * image.naturalWidth, image.width>>)
           /\ SameQuotient(canvas.sy, <<c.y * image.naturalHeight, image.height>>)
           /\ SameQuotient(canvas.sWidth, <<c.width * image.naturalWidth, image.width>>)
           /\ SameQuotient(canvas.sHeight, <<c.height * image.naturalHeight, image.height>>)
           /\ SameQuotient(<<canvas.width, 1>>, canvas.sWidth)
           /\ SameQuotient(<<canvas.height, 1>>, canvas.sHeight)


\* ------------------------------- the editor with every request answered
\* The promise a handler awaits settles: generateContent resolves or rejects,
\* and an Image with its src set fires onload or onerror.
Answered == (ServiceSettles \/ ServiceRejects \/ CanvasSettles) /\ Quiet
NextLoading ==
    \/ Upload /\ Quiet
    \/ UiReadyTimer /\ Quiet
    \/ TabChangeAmong({"retouch", "resize", "color", "crop"}) /\ Quiet
    \/ TypePrompt /\ Quiet
    \/ ImageClick /\ Quiet
    \/ Generate /\ Quiet
    \/ ApplyResize /\ Quiet
    \/ SliderChange /\ Quiet
    \/ ApplyColor /\ Quiet
    \/ ApplyCrop /\ Quiet
    \/ KeyUndo /\ Quiet
    \/ ServiceSettles /\ Quiet
    \/ ServiceRejects /\ Quiet
    \/ CanvasSettles /\ Quiet
SpecLoading == Init /\ [][NextLoading]_vars /\ WF_vars(Answered)

\* C21: the loading flag is true exactly while an edit operation is in
\* flight: a step that starts an operation sets it, a step that ends one
\* (with a version or with an error) clears it, a step that sets a
\* precondition error leaves it alone, and every operation that was started
\* is followed by a state in which the flag is false again.
Rejected == error' # NoError /\ error' # error /\ error'[1] = "precondition"
LoadingWhileInFlight ==
    /\ [](isLoading <=> inflight # <<>>)
    /\ [][Len(inflight') > Len(inflight) => isLoading']_vars
    /\ [][Len(inflight') < Len(inflight) => ~isLoading']_vars
    /\ [][Rejected => (isLoading' = isLoading /\ inflight' = inflight)]_vars
    /\ (isLoading ~> ~isLoading)
\* an operation has ended with an error and the flag is false again
LoadingWhileInFlight_W ==
    /\ error # NoError /\ error[1] = "failed"
    /\ ~isLoading /\ inflight = <<>>


\* ------------------------- the handlers called whatever the controls show
\* The handlers keep their own guards: here each edit handler is called in
\* every state with no operation running, enabled control or not.  response holds,
\* right after such a call, the name of the handler that was called, and right
\* after the end of a canvas operation the name of that operation.
Called(name) == response' = <<[call |-> name]>> /\ UNCHANGED <<toastAge, trail, canvasVars>>
Ended ==
    /\ response' = <<[call |-> "ended", op |-> inflight[1].op]>>
    /\ UNCHANGED <<toastAge, trail, canvasVars>>
RoomToCall ==
    /\ inflight = <<>>
    /\ RoomForUrl
    /\ currentImage = NoFile \/ RoomInHistory
NextDirect ==
    \/ Upload /\ Forget
    \/ UiReadyTimer /\ Forget
    \/ TabChangeAmong({"retouch", "crop", "color"}) /\ Forget
    \/ TypePrompt /\ Forget
    \/ ImageClick /\ Forget
    \/ CropDrag /\ Forget
    \/ CropDragEnd /\ Forget
    \/ SliderChange /\ Forget
    \/ RoomToCall /\ handleGenerate /\ Called("retouch")
    \/ RoomToCall /\ handleApplyFilter /\ Called("filter")
    \/ RoomToCall /\ applyCanvasFilter /\ Called("clientfilter")
    \/ RoomToCall /\ handleRotate /\ Called("rotate")
    \/ RoomToCall /\ handleApplyAdjustment /\ Called("adjust")
    \/ RoomToCall /\ handleApplyAiEdit /\ Called("ai_edit")
    \/ RoomToCall /\ handleApplyFaceSwap /\ Called("faceswap")
    \/ RoomToCall /\ handleApplyResize /\ Called("resize")
    \/ RoomToCall /\ handleApplyColorAdjustments /\ Called("color")
    \/ RoomToCall /\ (\E outcome \in {"drawn", "nocontext", "nopixels"} :
                         handleApplyCrop(outcome)) /\ Called("crop")
    \/ ServiceRejects /\ Forget
    \/ (\E k \in DOMAIN inflight, outcome \in {"drawn", "nocontext"} :
           SettleCanvas(k, outcome)) /\ Ended
SpecDirect == Init /\ [][NextDirect]_vars

\* ------------------ reset, undo and redo called whatever the controls show
\* handleReset, handleUndo and handleRedo are called in every state, also
\* with no image loaded and while an operation runs; rotations build the
\* history they move in.
NextNavigate ==
    \/ Upload /\ Forget
    \/ UiReadyTimer /\ Forget
    \/ ImageClick /\ Forget
    \/ RotateButton /\ Forget
    \/ CanvasSettles /\ Forget
    \/ handleReset /\ Called("reset")
    \/ handleUndo /\ Called("undo")
    \/ handleRedo /\ Called("redo")
SpecNavigate == Init /\ [][NextNavigate]_vars

\* C22: an edit handler called while its precondition is unmet (retouch: no
\* current image, a blank prompt or no hotspot; face swap: the current or the
\* secondary image missing; crop: no completed crop; any other edit: no
\* current image) sets an error message, starts no request and leaves the
\* history, the position and the loading flag as they were.
EditCalls == AiOps \cup CanvasOps \cup {"crop"}
Unmet(call) ==
    CASE call = "retouch" -> currentImage = NoFile \/ trim(prompt) = "" \/ editHotspot = NoSpot
      [] call = "faceswap" -> currentImage = NoFile \/ secondaryImage = NoFile
      [] call = "crop" -> completedCrop = NoCrop
      [] OTHER -> currentImage = NoFile
CallOf(name) == response' # <<>> /\ response'[1].call = name
UnmetCallStartsNothing ==
    [][\A call \in EditCalls :
         (CallOf(call) /\ Unmet(call)) =>
            /\ error' # NoError
            /\ UNCHANGED <<history, historyIndex, isLoading, inflight>>]_vars
\* face swap was called with an image loaded and no secondary image
UnmetCallStartsNothing_W ==
    /\ response = <<[call |-> "faceswap"]>>
    /\ currentImage # NoFile /\ secondaryImage = NoFile
    /\ error = ErrNoFaces /\ ~isLoading /\ inflight = <<>>


\* C23: the explanation shown for a reply follows a fixed precedence: a
\* block reason gives the "blocked" message even when the reply holds image
\* data; otherwise image data in the first candidate is returned and none of
\* the four explanations is shown; otherwise a finish reason other than STOP
\* gives the "stopped" message; otherwise non-blank text gives the "responded
\* with text" message; otherwise the generic message is shown.
Explanations == {Failed(MsgBlocked), Failed(MsgStopped), Failed(MsgText), Failed(MsgGeneric)}
ExplanationByPrecedence ==
    response # <<>> =>
        LET r == response[1].reply
            finish == IF r.candidates = <<>> THEN "" ELSE r.candidates[1].finishReason
        IN IF r.blockReason # "" THEN error = Failed(MsgBlocked)
           ELSE IF InlineImages(r) # {} THEN error \notin Explanations
           ELSE IF finish \notin {"", "STOP"} THEN error = Failed(MsgStopped)
           ELSE IF r.text \notin {"", " "} THEN error = Failed(MsgText)
           ELSE error = Failed(MsgGeneric)
\* a blocked reply that also holds image data was handled
ExplanationByPrecedence_W ==
    /\ response # <<>>
    /\ response[1].reply.blockReason = "SAFETY"
    /\ InlineImages(response[1].reply) # {}
    /\ error = Failed(MsgBlocked)
    /\ history = response[1].before


\* C24: a step of undo, redo, reset, upload or upload-new that changes the
\* position or the loaded image leaves the transient state at its defaults:
\* no edit or display hotspot, no crop or completed crop, no secondary image,
\* colour adjustments 100/100/100, compare mode off.
ImageLoadedOrUnloaded == (history = <<>>) # (history' = <<>>)
NavigationResetsTransient ==
    [][(PositionChanged \/ ImageLoadedOrUnloaded) =>
          (TransientDefault' /\ ~isComparingModeActive')]_vars
\* the position was just moved below the last version
NavigationResetsTransient_W ==
    /\ Len(history) >= 2 /\ historyIndex < Len(history) - 1
    /\ ~isUiReady /\ uiTimer
    /\ TransientDefault /\ ~isComparingModeActive


\* C25: between an upload and the next upload or upload-new no step (commit,
\* undo, redo, reset or any other) changes or removes the first entry of the
\* history, the uploaded original.
OriginalKept ==
    [][(history # <<>> /\ history' # <<>>) =>
          (history'[1] = history[1] /\ originalImage' = originalImage)]_vars
\* after an undo a second version was committed in place of the first one
OriginalKept_W ==
    /\ Len(history) = 2 /\ historyIndex = 1
    /\ history[1] = FreshFile(<<>>, 0)
    /\ history[2] = 3


\* C26: reset on a non-empty history sets the position to 0 and clears the
\* error, and leaves the history as it was, so that with more than one
\* version redo is possible and leads through the same later versions;
\* reset on an empty history changes nothing.
ResetKeepsHistory ==
    [][CallOf("reset") =>
          IF history = <<>> THEN UNCHANGED appVars
          ELSE /\ history' = history
               /\ historyIndex' = 0
               /\ error' = NoError
               /\ canRedo' <=> Len(history) > 1]_vars
\* reset was just called on a full history: every later version is kept
ResetKeepsHistory_W ==
    /\ response = <<[call |-> "reset"]>>
    /\ Len(history) = MaxHistory /\ historyIndex = 0 /\ canRedo
    /\ error = NoError /\ ~isUiReady /\ uiTimer


\* C27: applying the colour adjustments to a loaded image while brightness,
\* contrast and saturation are all 100 commits nothing, does not set the
\* loading flag, does not touch the error and leaves history and position;
\* when a colour operation (started with some slider off 100) ends with a
\* commit, the history is the captured one up to the captured position
\* followed by exactly one new version, and the three sliders are at 100.
ColourCommit == CallOf("ended") /\ response'[1].op = "color" /\ history' # history
ColourApply ==
    /\ [][(CallOf("color") /\ currentImage # NoFile /\ colorAdjustments = DefaultColor) =>
             UNCHANGED <<history, historyIndex, isLoading, error, inflight,
                         colorAdjustments>>]_vars
    /\ [][ColourCommit =>
             LET req == inflight[1] IN
             /\ Len(history') = req.i + 2
             /\ SubSeq(history', 1, req.i + 1) = SubSeq(req.h, 1, req.i + 1)
             /\ history'[req.i + 2] \notin Range(history)
             /\ historyIndex' = req.i + 1
             /\ colorAdjustments' = DefaultColor]_vars
\* the sliders were moved, applied, and the result was committed
ColourApply_W ==
    /\ response = <<[call |-> "ended", op |-> "color"]>>
    /\ Len(history) = 2 /\ historyIndex = 1 /\ ~isUiReady
    /\ colorAdjustments = DefaultColor /\ ~isLoading /\ error = NoError


\* C28: undo called at position 0 or with an empty history, and redo called
\* at the last position, change nothing: history, position, the UI-ready
\* flag, the error, the hotspots, the crop, the secondary image, the colour
\* adjustments and compare mode are all as before.
EditorState ==
    <<history, historyIndex, isUiReady, error, editHotspot, displayHotspot, crop,
      completedCrop, secondaryImage, colorAdjustments, isComparingModeActive>>
UndoRedoAtTheEnds ==
    /\ [][(CallOf("undo") /\ historyIndex <= 0) => UNCHANGED EditorState]_vars
    /\ [][(CallOf("redo") /\ historyIndex >= Len(history) - 1) => UNCHANGED EditorState]_vars
\* undo was called at the first of two versions with a hotspot placed
UndoRedoAtTheEnds_W ==
    /\ response = <<[call |-> "undo"]>>
    /\ Len(history) = 2 /\ historyIndex = 0
    /\ isUiReady /\ editHotspot # NoSpot

\* ------------- the saved presets (FilterPanel, AdjustmentPanel)
\* presetPanel is the state of one mounted panel together with its
\* localStorage item: panel, selectedPresetPrompt (<<>> for null),
\* customPrompt, savedPresets, localStorage (<<>> when the item is absent),
\* and two records of the last handler call: lastCall and lastWrite (the
\* value setItem stored in that call, <<>> when it stored none).
Quote(text) == "\"" \o text \o "\""
RECURSIVE JoinQuoted(_)
JoinQuoted(list) ==
    IF list = <<>> THEN ""
    ELSE IF Len(list) = 1 THEN Quote(list[1])
    ELSE Quote(list[1]) \o "," \o JoinQuoted(Tail(list))
\* JSON.stringify of a string[] (texts without quotes or backslashes)
JSONstringify(list) == "[" \o JoinQuoted(list) \o "]"
PresetTexts == {"warm", "blur"}
BuiltInPrompt == "sharpen"
PresetLists == {<<>>} \cup {<<a>> : a \in PresetTexts}
                  \cup {<<a, b>> : a \in PresetTexts, b \in PresetTexts}
JSONparse(text) == CHOOSE list \in PresetLists : JSONstringify(list) = text
\* localStorage.setItem stores the value, or throws (storage blocked or full)
SetItemOutcomes == {"stored", "throws"}
SamePresetRest ==
    UNCHANGED <<appVars, inflight, uiTimer, toastTimer, objectUrls, handlerUrls,
                observers, imageData, naturalSize, imageDimensions, resizePanel,
                cropJob>>
handlePresetClick(presetPrompt) ==
    /\ presetPanel' = [presetPanel EXCEPT !.selectedPresetPrompt = <<presetPrompt>>,
                                          !.customPrompt = "",
                                          !.lastCall = <<"select", presetPrompt>>,
                                          !.lastWrite = <<>>]
    /\ uncaught' = FALSE
    /\ SamePresetRest
handleCustomChange(value) ==
    /\ presetPanel' = [presetPanel EXCEPT !.selectedPresetPrompt = <<>>,
                                          !.customPrompt = value,
                                          !.lastCall = <<"type", value>>,
                                          !.lastWrite = <<>>]
    /\ uncaught' = FALSE
    /\ SamePresetRest
\* AdjustmentPanel's updateAndSavePresets catches what setItem throws;
\* FilterPanel calls setItem with no try, after setSavedPresets: the exception
\* leaves the handler, the state already set is rendered.
Caught(outcome) == outcome = "stored" \/ presetPanel.panel = "adjust"
updateAndSavePresets(updatedPresets, outcome) ==
    [presetPanel EXCEPT
        !.savedPresets = updatedPresets,
        !.localStorage = IF outcome = "stored" THEN <<JSONstringify(updatedPresets)>> ELSE @,
        !.lastWrite = IF outcome = "stored" THEN <<JSONstringify(updatedPresets)>> ELSE <<>>]
handleSavePreset(outcome) ==
    LET trimmedPrompt == trim(presetPanel.customPrompt) IN
    /\ presetPanel' =
         IF trimmedPrompt # "" /\ trimmedPrompt \notin Range(presetPanel.savedPresets)
         THEN [updateAndSavePresets(Append(presetPanel.savedPresets, trimmedPrompt), outcome)
                 EXCEPT !.customPrompt = IF Caught(outcome) THEN "" ELSE @,
                        !.lastCall = <<"save", trimmedPrompt>>]
         ELSE [presetPanel EXCEPT !.lastCall = <<"save", trimmedPrompt>>, !.lastWrite = <<>>]
    /\ uncaught' = ~Caught(outcome)
    /\ SamePresetRest
handleDeletePreset(presetToDelete, outcome) ==
    LET updatedPresets == SelectSeq(presetPanel.savedPresets, LAMBDA p : p # presetToDelete) IN
    /\ presetPanel' =
         [updateAndSavePresets(updatedPresets, outcome)
            EXCEPT !.selectedPresetPrompt =
                       IF Caught(outcome) /\ @ = <<presetToDelete>> THEN <<>> ELSE @,
                   !.lastCall = <<"delete", presetToDelete>>]
    /\ uncaught' = ~Caught(outcome)
    /\ SamePresetRest

\* The panel right after its mount effect: the stored item, if there is one,
\* is a list without duplicates and without blank entries, and savedPresets
\* is that list.
StoredLists == {list \in PresetLists : Len(list) = Cardinality(Range(list))}
CustomPrompts == {"", " ", "warm", " warm", "blur"}
InitPresets ==
    /\ InitEditor
    /\ imageData = <<>>
    /\ naturalSize = <<>>
    /\ imageDimensions = <<>>
    /\ resizePanel = <<>>
    /\ cropJob = <<>>
    /\ \E panel \in {"filter", "adjust"}, stored \in {<<>>} \cup {<<list>> : list \in StoredLists} :
         presetPanel =
            [panel |-> panel, selectedPresetPrompt |-> <<>>, customPrompt |-> "",
             savedPresets |-> IF stored = <<>> THEN <<>>
                              ELSE JSONparse(JSONstringify(stored[1])),
             localStorage |-> IF stored = <<>> THEN <<>> ELSE <<JSONstringify(stored[1])>>,
             lastCall |-> <<>>, lastWrite |-> <<>>]
PresetClick ==
    \E presetPrompt \in {BuiltInPrompt} \cup Range(presetPanel.savedPresets) :
        handlePresetClick(presetPrompt)
CustomChange == \E value \in CustomPrompts : handleCustomChange(value)
SavePreset ==
    /\ trim(presetPanel.customPrompt) # ""
    /\ trim(presetPanel.customPrompt) \notin Range(presetPanel.savedPresets)
    /\ \E outcome \in SetItemOutcomes : handleSavePreset(outcome)
DeletePreset ==
    \E presetToDelete \in Range(presetPanel.savedPresets), outcome \in SetItemOutcomes :
        handleDeletePreset(presetToDelete, outcome)
NextPresets ==
    \/ PresetClick
    \/ CustomChange
    \/ SavePreset
    \/ DeletePreset
SpecPresets == InitPresets /\ [][NextPresets]_vars

\* C29: in either panel, from a stored list without duplicates and blanks,
\* after any saves and deletes the saved presets hold no text twice and no
\* empty or whitespace-only text, a value written to localStorage is the JSON
\* text of the list in memory, a delete of the selected preset leaves no
\* preset selected, and a delete of another preset leaves the selection.
NoDuplicateNoBlank ==
    /\ Len(presetPanel.savedPresets) = Cardinality(Range(presetPanel.savedPresets))
    /\ \A p \in Range(presetPanel.savedPresets) : trim(p) # ""
WrittenIsInMemory ==
    presetPanel.lastWrite # <<>> =>
        presetPanel.lastWrite[1] = JSONstringify(presetPanel.savedPresets)
DeleteAndSelection ==
    \A p \in PresetTexts :
        presetPanel'.lastCall = <<"delete", p>> =>
            presetPanel'.selectedPresetPrompt =
                IF presetPanel.selectedPresetPrompt = <<p>> THEN <<>>
                ELSE presetPanel.selectedPresetPrompt
SavedPresetsKept ==
    /\ [](NoDuplicateNoBlank /\ WrittenIsInMemory)
    /\ [][DeleteAndSelection]_vars

\* C30: a second grayscale run on the result of a first one stores, for
\* every pixel, the R, G, B and A it read, and still commits a version of its
\* own; a second sepia run on the result of a first one changes the pixels
\* (of every image that is not all black).
TwoRuns(filter) ==
    imageData # <<>> /\ imageData.before = filter /\ imageData.filter = filter
AllBlack(data) == \A i \in PixelStarts(data) : data[i] + data[i + 1] + data[i + 2] = 0
GrayscaleIdempotentSepiaNot ==
    /\ TwoRuns("grayscale") =>
          /\ imageData.data = imageData.source
          /\ Len(history) = 3 /\ historyIndex = 2
          /\ history[3] # history[2]
    /\ (TwoRuns("sepia") /\ ~AllBlack(imageData.source)) =>
          imageData.data # imageData.source
\* grayscale was run twice on an image that was not gray at the start
GrayscaleIdempotentSepiaNot_W ==
    /\ TwoRuns("grayscale")
    /\ imageData.data = <<170, 170, 170, 255>>
    /\ Len(history) = 3

====
